---- MODULE Spec2Model ----
(***************************************************************************)
(* Model of the range downloader facade (Downloader.Execute, its control   *)
(* surface and status channel) of BaiduPCS-Go, of the download command's   *)
(* task queue (RunDownload) and of the goroutines of getDownloadFunc.      *)
(*                                                                         *)
(* Byte counts are Go int64 values; every value the model produces stays   *)
(* below 2^31, so no wrap-around can occur within the bounds used here.    *)
(***************************************************************************)
EXTENDS Integers, Sequences, FiniteSets, TLC

\* ---------------------------------------------------------------- bounds
\* Largest remote object, counted in blocks of MinParallelSize.
MaxBlocks == 3
\* Largest config.MaxParallel drawn for the planning specification.
MaxMaxParallel == 4
\* Number of Pause/Resume/Cancel calls a client makes during one run.
MaxCalls == 2
\* Number of status channels a client asks for.
MaxChans == 1

\* Files listed directly in the remote directory RunDownload is given.
MaxDirFiles == 1

\* ------------------------------------------------------- program constants
MinParallelSize == 256 * 1024

\* ---------------------------------------------------------------- state
VARIABLES
    pc,                \* position of the goroutine that runs Execute
    config,            \* der.config: MaxParallel, CacheSize, IsTest, parallel, cacheSize
    respInput,         \* what the remote answers to HEAD: error, status, Content-Length
    execResult,        \* value Execute returned ("none" while it has not returned)
    monitorCreated,    \* der.monitor != nil
    totalSize,         \* der.monitor.status.totalSize
    acceptRanges,      \* local acceptRanges of Execute
    checkpoint,        \* the checkpoint file at InstanceStatePath
    instanceState,     \* der.instanceState: "nil" or "loaded"
    ranges,            \* local ranges of Execute (persisted plan, <<>> when none)
    workers,           \* der.monitor.workers
    monitorCancelFunc, \* der.monitorCancelFunc: "nil" or "set"
    ctxCancelled,      \* moniterCtx is cancelled
    monitorState,      \* "idle", "running", "exited"
    monitorResult,     \* how the monitor run ended
    completed,         \* der.monitor.completed has been signalled
    paused,            \* the monitor's pause flag
    fired,             \* number of times each event callback was triggered
    io,                \* what has been done to the checkpoint file and the sink
    calls,             \* control calls made so far
    chans,             \* status channels: emitter position and channel state
    drvPc,             \* RunDownload: "off" (not running), "loop", "done"
    isTest,            \* RunDownload's isTest argument
    dlist,             \* RunDownload's task queue (task IDs, front first)
    tasks,             \* the dtask objects, by ID: path, retry, MaxRetry, downloadInfo
    fs,                \* local files: destination and checkpoint file of each path
    hist,              \* history: DownloadFile calls, pushes, takes, last iteration
    printer,           \* getDownloadFunc: the on_execute goroutine
    notifier           \* getDownloadFunc: the on_finish goroutine

vars == <<pc, config, respInput, execResult, monitorCreated, totalSize,
          acceptRanges, checkpoint, instanceState, ranges, workers,
          monitorCancelFunc, ctxCancelled, monitorState, monitorResult,
          completed, paused, fired, io, calls, chans,
          drvPc, isTest, dlist, tasks, fs, hist, printer, notifier>>

\* The state of one Downloader.
derVars == <<pc, config, respInput, execResult, monitorCreated, totalSize,
             acceptRanges, checkpoint, instanceState, ranges, workers,
             monitorCancelFunc, ctxCancelled, monitorState, monitorResult,
             completed, paused, fired, io, calls, chans>>

\* The state of RunDownload.
drvVars == <<drvPc, isTest, dlist, tasks, fs, hist>>

\* The goroutines getDownloadFunc starts around one Execute.
goVars == <<printer, notifier>>

\* -------------------------------------------------------------- helpers
\* Go integer division truncates toward zero.
GoDiv(a, b) ==
    IF a >= 0 THEN a \div b ELSE -((-a) \div b)

RangeLen(r) ==
    r.End - r.Begin + 1

NoCheckpoint == [present |-> FALSE, totalSize |-> 0, ranges |-> <<>>]

\* A persisted plan is usable when its ranges tile [0, total-1] in order,
\* every cursor is within its range and the recorded total matches HEAD.
Consistent(ck, total) ==
    /\ ck.present
    /\ ck.totalSize = total
    /\ Len(ck.ranges) > 0
    /\ ck.ranges[1].Begin = 0
    /\ ck.ranges[Len(ck.ranges)].End = total - 1
    /\ \A i \in 1..Len(ck.ranges) :
          /\ ck.ranges[i].Begin <= ck.ranges[i].End
          /\ ck.ranges[i].Downloaded >= 0
          /\ ck.ranges[i].Downloaded <= RangeLen(ck.ranges[i])
    /\ \A i \in 1..(Len(ck.ranges) - 1) :
          ck.ranges[i + 1].Begin = ck.ranges[i].End + 1

\* instanceState.Get(): the persisted ranges, or none.
InstanceRanges(ck, total) ==
    IF Consistent(ck, total) THEN ck.ranges ELSE <<>>

\* Checkpoint files that may lie next to the destination of an object of
\* `total` bytes when Execute starts.
CheckpointsFor(total) ==
    {NoCheckpoint} \cup
    (IF total >= 4
     THEN { [present |-> TRUE, totalSize |-> total,
             ranges |-> << [Begin |-> 0, End |-> total \div 4, Downloaded |-> 1],
                           [Begin |-> (total \div 4) + 1, End |-> total - 1,
                            Downloaded |-> 0] >>],
            [present |-> TRUE, totalSize |-> total,
             ranges |-> << [Begin |-> 0, End |-> 0, Downloaded |-> 1],
                           [Begin |-> 1, End |-> 2, Downloaded |-> 0],
                           [Begin |-> 3, End |-> total - 1, Downloaded |-> 0] >>],
            [present |-> TRUE, totalSize |-> total,
             ranges |-> << [Begin |-> 0, End |-> total \div 2, Downloaded |-> 0] >>] }
     ELSE {})

\* Parallelism chosen without the clamp by MinParallelSize.
ChooseParallelValueNoClamp(accept, isRange, nRanges, maxParallel, total) ==
    IF accept = "" THEN 1
    ELSE IF isRange THEN nRanges
    ELSE maxParallel

\* Parallelism chosen by Execute.
ChooseParallelValue(accept, isRange, nRanges, maxParallel, total) ==
    IF accept = "" THEN 1
    ELSE IF isRange THEN nRanges
    ELSE IF maxParallel > GoDiv(total, MinParallelSize)
         THEN GoDiv(total, MinParallelSize) + 1
         ELSE maxParallel

\* Cache size left as configured.
CapCacheValueNeverLowered(cacheSize, blockSize) ==
    cacheSize

\* Cache size lowered to the block size.
CapCacheValue(cacheSize, blockSize) ==
    IF cacheSize > blockSize THEN blockSize ELSE cacheSize

\* The loop without the correction of the last worker's End.
RECURSIVE AssignRangesNoLastFix(_, _, _, _, _)
AssignRangesNoLastFix(i, begin, parallel, blockSize, total) ==
    IF i >= parallel THEN <<>>
    ELSE LET end == (i + 1) * blockSize
             r   == [Begin |-> begin, End |-> end, Downloaded |-> 0]
         IN  <<r>> \o AssignRangesNoLastFix(i + 1, end + 1, parallel, blockSize, total)

\* The range-assignment loop of a fresh plan, from iteration i on.
RECURSIVE AssignRanges(_, _, _, _, _)
AssignRanges(i, begin, parallel, blockSize, total) ==
    IF i >= parallel THEN <<>>
    ELSE LET end == (i + 1) * blockSize
             r   == [Begin |-> begin,
                     End |-> IF i = parallel - 1 THEN total - 1 ELSE end,
                     Downloaded |-> 0]
         IN  <<r>> \o AssignRanges(i + 1, end + 1, parallel, blockSize, total)

NewWorker(i, accept, cache, r) ==
    [id |-> i, acceptRanges |-> accept, cacheSize |-> cache,
     wrange |-> r, state |-> "Idle"]

\* Workers built from a new partition even when a persisted plan was loaded.
BuildWorkersValueRepartition(accept, isRange, persisted, parallel, blockSize, total, cache) ==
    LET rs == AssignRanges(0, 0, parallel, blockSize, total)
    IN  [i \in 1..parallel |-> NewWorker(i - 1, accept, cache, rs[i])]

BuildWorkersValue(accept, isRange, persisted, parallel, blockSize, total, cache) ==
    LET rs == IF isRange THEN persisted
              ELSE AssignRanges(0, 0, parallel, blockSize, total)
    IN  [i \in 1..parallel |-> NewWorker(i - 1, accept, cache, rs[i])]

\* ------------------------------------------------------------- inputs
\* An answer of the remote to the HEAD probe: a transport error, or a
\* response with a status code and a Content-Length.
HeadError(total) ==
    [err |-> TRUE, StatusCode |-> 0, ContentLength |-> total]

HeadResponse(code, total) ==
    [err |-> FALSE, StatusCode |-> code, ContentLength |-> total]

\* Content-Length values the HEAD probe may report (planning runs).
PlanTotals ==
    {-1, 0, 1, 100} \cup
    {k * MinParallelSize + d : k \in 1..MaxBlocks, d \in {-1, 0, 1}}

PlanAnswers ==
    {HeadError(100), HeadResponse(404, 100), HeadResponse(503, 100)}
    \cup {HeadResponse(200, t) : t \in PlanTotals}

\* config.CacheSize values (planning runs).
PlanCacheSizes ==
    {1, 30000, MinParallelSize \div 2, MinParallelSize, 2 * MinParallelSize}

\* Answers to the HEAD probe in full runs.
RunAnswers ==
    {HeadError(100), HeadResponse(404, 100), HeadResponse(503, 100),
     HeadResponse(302, 100), HeadResponse(200, -1), HeadResponse(200, 100),
     HeadResponse(200, 2 * MinParallelSize)}

\* The configuration of the full runs.
RunConfig == [MaxParallel |-> 2, CacheSize |-> MinParallelSize]

\* Answers to the HEAD probe in the runs that follow the status channel.
StatusAnswers ==
    {HeadError(100), HeadResponse(200, 100)}

\* Checkpoint files present at the start of a full run.
RunCheckpointsFor(total) ==
    {ck \in CheckpointsFor(total) : Len(ck.ranges) \in {0, 2}}

NoEvents ==
    [onExecute |-> 0, onFinish |-> 0, onPause |-> 0, onResume |-> 0, onCancel |-> 0]

NoIO ==
    [ckptRead |-> FALSE, ckptWritten |-> FALSE, ckptRemoved |-> FALSE,
     sinkWritten |-> FALSE]

NoChan == [state |-> "none", pc |-> "none"]

\* The state right after NewDownloader(durl, writer, config) + SetClient.
NewDownloader(answer, maxParallel, cacheSize, test, ck) ==
    /\ pc = "new"
    /\ config = [MaxParallel |-> maxParallel, CacheSize |-> cacheSize,
                 IsTest |-> test, parallel |-> 0, cacheSize |-> 0]
    /\ respInput = answer
    /\ execResult = "none"
    /\ monitorCreated = FALSE
    /\ totalSize = 0
    /\ acceptRanges = ""
    /\ checkpoint = ck
    /\ instanceState = "nil"
    /\ ranges = <<>>
    /\ workers = <<>>
    /\ monitorCancelFunc = "nil"
    /\ ctxCancelled = FALSE
    /\ monitorState = "idle"
    /\ monitorResult = "none"
    /\ completed = FALSE
    /\ paused = FALSE
    /\ fired = NoEvents
    /\ io = NoIO
    /\ calls = 0
    /\ chans = [c \in 1..MaxChans |-> NoChan]

\* RunDownload is not running and no goroutine of getDownloadFunc exists.
NoDriver ==
    /\ drvPc = "off"
    /\ isTest = FALSE
    /\ dlist = <<>>
    /\ tasks = <<>>
    /\ fs = <<>>
    /\ hist = <<>>
    /\ printer = "none"
    /\ notifier = "none"

Init ==
    /\ \E answer \in RunAnswers, test \in BOOLEAN :
          \E ck \in (IF test THEN {NoCheckpoint}
                     ELSE RunCheckpointsFor(answer.ContentLength)) :
              NewDownloader(answer, RunConfig.MaxParallel, RunConfig.CacheSize,
                            test, ck)
    /\ NoDriver

StatusInit ==
    /\ \E answer \in StatusAnswers :
          NewDownloader(answer, RunConfig.MaxParallel, RunConfig.CacheSize,
                        FALSE, NoCheckpoint)
    /\ NoDriver

PlanInit ==
    /\ \E answer \in PlanAnswers, maxParallel \in 1..MaxMaxParallel,
          cacheSize \in PlanCacheSizes :
          \E ck \in CheckpointsFor(answer.ContentLength) :
              NewDownloader(answer, maxParallel, cacheSize, FALSE, ck)
    /\ NoDriver

\* ------------------------------------------------------ Execute, by step
\* trigger(f): starts the callback f in its own goroutine, if one is set.
Trigger(event) ==
    fired' = [fired EXCEPT ![event] = @ + 1]

\* der.lazyInit(): the monitor object is created.
ExecLazyInit ==
    /\ pc = "new"
    /\ monitorCreated' = TRUE
    /\ pc' = "head"
    /\ UNCHANGED <<config, respInput, execResult, totalSize, acceptRanges,
                   checkpoint, instanceState, ranges, workers,
                   monitorCancelFunc, ctxCancelled, monitorState,
                   monitorResult, completed, paused, fired, io, calls, chans>>
    /\ UNCHANGED <<drvVars, goVars>>

\* A status switch that has no case for the 5xx class.
HeadStatusIsErrorOnly4xx(code) ==
    (code \div 100) \in {4}

\* Whether a HEAD response with this status code makes Execute return.
HeadStatusIsError(code) ==
    (code \div 100) \in {4, 5}

\* The HEAD probe fails in transport: Execute returns the error.
ExecHeadTransportError ==
    /\ pc = "head"
    /\ respInput.err
    /\ execResult' = "NetworkError"
    /\ pc' = "returned"
    /\ UNCHANGED <<config, respInput, monitorCreated, totalSize, acceptRanges,
                   checkpoint, instanceState, ranges, workers,
                   monitorCancelFunc, ctxCancelled, monitorState,
                   monitorResult, completed, paused, fired, io, calls, chans>>
    /\ UNCHANGED <<drvVars, goVars>>

\* The HEAD probe answers with a status code.
ExecHeadResponse ==
    /\ pc = "head"
    /\ ~respInput.err
    /\ IF HeadStatusIsError(respInput.StatusCode)
       THEN /\ execResult' = "RemoteError"
            /\ pc' = "returned"
            /\ UNCHANGED <<totalSize, acceptRanges>>
       ELSE /\ acceptRanges' = IF respInput.ContentLength <= 0 THEN "" ELSE "bytes"
            /\ totalSize' = respInput.ContentLength
            /\ pc' = "load"
            /\ UNCHANGED execResult
    /\ UNCHANGED <<config, respInput, monitorCreated, checkpoint,
                   instanceState, ranges, workers, monitorCancelFunc,
                   ctxCancelled, monitorState, monitorResult, completed,
                   paused, fired, io, calls, chans>>
    /\ UNCHANGED <<drvVars, goVars>>

\* der.initInstanceState() and instanceState.Get().
ExecLoadInstanceState ==
    /\ pc = "load"
    /\ \E ok \in BOOLEAN :
          IF ok
          THEN /\ instanceState' = "loaded"
               /\ ranges' = InstanceRanges(checkpoint, totalSize)
               /\ totalSize' = IF Consistent(checkpoint, totalSize)
                                THEN checkpoint.totalSize ELSE totalSize
               /\ io' = [io EXCEPT !.ckptRead = TRUE]
               /\ pc' = "plan"
               /\ UNCHANGED execResult
          ELSE /\ execResult' = "CheckpointError"
               /\ pc' = "returned"
               /\ UNCHANGED <<instanceState, ranges, totalSize, io>>
    /\ UNCHANGED <<config, respInput, monitorCreated, acceptRanges,
                   checkpoint, workers, monitorCancelFunc, ctxCancelled,
                   monitorState, monitorResult, completed, paused, fired,
                   calls, chans>>
    /\ UNCHANGED <<drvVars, goVars>>

isRange == Len(ranges) > 0

\* Choice of der.config.parallel.
ExecChooseParallel ==
    /\ pc = "plan"
    /\ config' = [config EXCEPT !.parallel =
                     ChooseParallelValue(acceptRanges, isRange, Len(ranges),
                                         config.MaxParallel, totalSize)]
    /\ pc' = "cap"
    /\ UNCHANGED <<respInput, execResult, monitorCreated, totalSize,
                   acceptRanges, checkpoint, instanceState, ranges, workers,
                   monitorCancelFunc, ctxCancelled, monitorState,
                   monitorResult, completed, paused, fired, io, calls, chans>>
    /\ UNCHANGED <<drvVars, goVars>>

blockSize == GoDiv(totalSize, config.parallel)

\* der.config.cacheSize, lowered to blockSize when it is higher.
ExecCapCache ==
    /\ pc = "cap"
    /\ config' = [config EXCEPT !.cacheSize =
                     CapCacheValue(config.CacheSize, blockSize)]
    /\ pc' = "build"
    /\ UNCHANGED <<respInput, execResult, monitorCreated, totalSize,
                   acceptRanges, checkpoint, instanceState, ranges, workers,
                   monitorCancelFunc, ctxCancelled, monitorState,
                   monitorResult, completed, paused, fired, io, calls, chans>>
    /\ UNCHANGED <<drvVars, goVars>>

\* The loop that builds the workers and appends them to the monitor.
ExecBuildWorkers ==
    /\ pc = "build"
    /\ workers' = BuildWorkersValue(acceptRanges, isRange, ranges,
                                    config.parallel, blockSize, totalSize,
                                    config.cacheSize)
    /\ pc' = "ctx"
    /\ UNCHANGED <<config, respInput, execResult, monitorCreated, totalSize,
                   acceptRanges, checkpoint, instanceState, ranges,
                   monitorCancelFunc, ctxCancelled, monitorState,
                   monitorResult, completed, paused, fired, io, calls, chans>>
    /\ UNCHANGED <<drvVars, goVars>>

PlanNext ==
    \/ ExecLazyInit
    \/ ExecHeadTransportError
    \/ ExecHeadResponse
    \/ ExecLoadInstanceState
    \/ ExecChooseParallel
    \/ ExecCapCache
    \/ ExecBuildWorkers

PlanSpec == PlanInit /\ [][PlanNext]_vars

\* ------------------------------------------------- Execute, the run step
\* moniterCtx is created and its cancel function stored in the Downloader.
ExecMakeContext ==
    /\ pc = "ctx"
    /\ monitorCancelFunc' = "set"
    /\ pc' = "fire"
    /\ UNCHANGED <<config, respInput, execResult, monitorCreated, totalSize,
                   acceptRanges, checkpoint, instanceState, ranges, workers,
                   ctxCancelled, monitorState, monitorResult, completed,
                   paused, fired, io, calls, chans>>
    /\ UNCHANGED <<drvVars, goVars>>

\* trigger(der.onExecute), then der.monitor.Execute is entered.
ExecFireOnExecute ==
    /\ pc = "fire"
    /\ Trigger("onExecute")
    /\ pc' = "run"
    /\ UNCHANGED <<config, respInput, execResult, monitorCreated, totalSize,
                   acceptRanges, checkpoint, instanceState, ranges, workers,
                   monitorCancelFunc, ctxCancelled, monitorState,
                   monitorResult, completed, paused, io, calls, chans>>
    /\ UNCHANGED <<drvVars, goVars>>

\* der.removeInstanceState(), once der.monitor.Execute has come back.
ExecRemoveInstanceState ==
    /\ pc = "run"
    /\ monitorState = "exited"
    /\ IF config.IsTest
       THEN UNCHANGED <<checkpoint, io>>
       ELSE /\ checkpoint' = NoCheckpoint
            /\ io' = [io EXCEPT !.ckptRemoved = TRUE]
    /\ pc' = "finish"
    /\ UNCHANGED <<config, respInput, execResult, monitorCreated, totalSize,
                   acceptRanges, instanceState, ranges, workers,
                   monitorCancelFunc, ctxCancelled, monitorState,
                   monitorResult, completed, paused, fired, calls, chans>>
    /\ UNCHANGED <<drvVars, goVars>>

\* on_finish triggered only after a run that completed.
ExecFireOnFinishOnSuccessOnly ==
    /\ pc = "finish"
    /\ IF monitorResult = "completed"
       THEN Trigger("onFinish")
       ELSE UNCHANGED fired
    /\ pc' = "ret"
    /\ UNCHANGED <<config, respInput, execResult, monitorCreated,
                   totalSize, acceptRanges, checkpoint, instanceState, ranges,
                   workers, monitorCancelFunc, ctxCancelled, monitorState,
                   monitorResult, completed, paused, io, calls, chans>>
    /\ UNCHANGED <<drvVars, goVars>>

\* trigger(der.onFinish).
ExecFireOnFinish ==
    /\ pc = "finish"
    /\ Trigger("onFinish")
    /\ pc' = "ret"
    /\ UNCHANGED <<config, respInput, execResult, monitorCreated, totalSize,
                   acceptRanges, checkpoint, instanceState, ranges, workers,
                   monitorCancelFunc, ctxCancelled, monitorState,
                   monitorResult, completed, paused, io, calls, chans>>
    /\ UNCHANGED <<drvVars, goVars>>

\* The value Execute returns after the run step.
ExecReturnValue(result) == "nil"

ExecReturn ==
    /\ pc = "ret"
    /\ execResult' = ExecReturnValue(monitorResult)
    /\ pc' = "returned"
    /\ UNCHANGED <<config, respInput, monitorCreated, totalSize, acceptRanges,
                   checkpoint, instanceState, ranges, workers,
                   monitorCancelFunc, ctxCancelled, monitorState,
                   monitorResult, completed, paused, fired, io, calls, chans>>
    /\ UNCHANGED <<drvVars, goVars>>

\* ------------------------------------------------------ control surface
\* Whether Pause, Resume and Cancel act (they return at once otherwise).
ControlActs == monitorCreated

Pause ==
    /\ calls < MaxCalls
    /\ calls' = calls + 1
    /\ IF ControlActs
       THEN /\ Trigger("onPause")
            /\ paused' = TRUE
       ELSE UNCHANGED <<fired, paused>>
    /\ UNCHANGED <<pc, config, respInput, execResult, monitorCreated,
                   totalSize, acceptRanges, checkpoint, instanceState, ranges,
                   workers, monitorCancelFunc, ctxCancelled, monitorState,
                   monitorResult, completed, io, chans>>
    /\ UNCHANGED <<drvVars, goVars>>

Resume ==
    /\ calls < MaxCalls
    /\ calls' = calls + 1
    /\ IF ControlActs
       THEN /\ Trigger("onResume")
            /\ paused' = FALSE
       ELSE UNCHANGED <<fired, paused>>
    /\ UNCHANGED <<pc, config, respInput, execResult, monitorCreated,
                   totalSize, acceptRanges, checkpoint, instanceState, ranges,
                   workers, monitorCancelFunc, ctxCancelled, monitorState,
                   monitorResult, completed, io, chans>>
    /\ UNCHANGED <<drvVars, goVars>>

Cancel ==
    /\ calls < MaxCalls
    /\ calls' = calls + 1
    /\ IF ControlActs
       THEN /\ Trigger("onCancel")
            /\ ctxCancelled' = (ctxCancelled \/ monitorCancelFunc = "set")
       ELSE UNCHANGED <<fired, ctxCancelled>>
    /\ UNCHANGED <<pc, config, respInput, execResult, monitorCreated,
                   totalSize, acceptRanges, checkpoint, instanceState, ranges,
                   workers, monitorCancelFunc, monitorState, monitorResult,
                   completed, paused, io, chans>>
    /\ UNCHANGED <<drvVars, goVars>>

\* ---------------------------------------------------- monitor and workers
Min(a, b) == IF a <= b THEN a ELSE b

RangeDone(w) ==
    w.acceptRanges = "bytes" /\ w.wrange.Downloaded = RangeLen(w.wrange)

\* What the monitor persists: the workers' ranges with their cursors.
Snapshot ==
    [present |-> TRUE, totalSize |-> totalSize,
     ranges |-> [i \in 1..Len(workers) |-> workers[i].wrange]]

Persisting == ~config.IsTest /\ acceptRanges = "bytes"

\* monitor.Execute(ctx) launches every worker.
MonitorStart ==
    /\ pc = "run"
    /\ monitorState = "idle"
    /\ monitorState' = "running"
    /\ workers' = [i \in 1..Len(workers) |->
                      [workers[i] EXCEPT !.state =
                          IF RangeDone(workers[i]) THEN "Done" ELSE "Running"]]
    /\ UNCHANGED <<pc, config, respInput, execResult, monitorCreated,
                   totalSize, acceptRanges, checkpoint, instanceState, ranges,
                   monitorCancelFunc, ctxCancelled, monitorResult, completed,
                   paused, fired, io, calls, chans>>
    /\ UNCHANGED <<drvVars, goVars>>

\* A worker commits one cache buffer to the sink and advances its cursor; a
\* worker on a source of unknown length streams until EOF.
WorkerFlush(i) ==
    /\ monitorState = "running"
    /\ workers[i].state = "Running"
    /\ ~paused
    /\ ~ctxCancelled
    /\ LET w    == workers[i]
           left == RangeLen(w.wrange) - w.wrange.Downloaded
           n    == IF w.cacheSize >= 1 THEN Min(w.cacheSize, left) ELSE left
       IN  workers' =
             IF w.acceptRanges = "bytes"
             THEN [workers EXCEPT
                     ![i].wrange.Downloaded = @ + n,
                     ![i].state = IF n = left THEN "Done" ELSE "Running"]
             ELSE [workers EXCEPT ![i].state = "Done"]
    /\ io' = [io EXCEPT !.sinkWritten = @ \/ ~config.IsTest]
    /\ UNCHANGED <<pc, config, respInput, execResult, monitorCreated,
                   totalSize, acceptRanges, checkpoint, instanceState, ranges,
                   monitorCancelFunc, ctxCancelled, monitorState,
                   monitorResult, completed, paused, fired, calls, chans>>
    /\ UNCHANGED <<drvVars, goVars>>

\* A worker's GET fails (network error, non-2xx answer, sink error).
WorkerFail(i) ==
    /\ monitorState = "running"
    /\ workers[i].state = "Running"
    /\ workers' = [workers EXCEPT ![i].state = "Failed"]
    /\ UNCHANGED <<pc, config, respInput, execResult, monitorCreated,
                   totalSize, acceptRanges, checkpoint, instanceState, ranges,
                   monitorCancelFunc, ctxCancelled, monitorState,
                   monitorResult, completed, paused, fired, io, calls, chans>>
    /\ UNCHANGED <<drvVars, goVars>>

\* A monitor tick writes the checkpoint.
MonitorTick ==
    /\ monitorState = "running"
    /\ Persisting
    /\ checkpoint # Snapshot
    /\ checkpoint' = Snapshot
    /\ io' = [io EXCEPT !.ckptWritten = TRUE]
    /\ UNCHANGED <<pc, config, respInput, execResult, monitorCreated,
                   totalSize, acceptRanges, instanceState, ranges, workers,
                   monitorCancelFunc, ctxCancelled, monitorState,
                   monitorResult, completed, paused, fired, calls, chans>>
    /\ UNCHANGED <<drvVars, goVars>>

AllDone == \A i \in 1..Len(workers) : workers[i].state = "Done"

AnyFailed == \E i \in 1..Len(workers) : workers[i].state = "Failed"

\* The monitor leaves its loop: every worker is done, a worker failed, or
\* the context was cancelled.  It writes the checkpoint on its way out and
\* stops the workers still running.
MonitorExit ==
    /\ monitorState = "running"
    /\ \/ /\ AllDone
          /\ monitorResult' = "completed"
          /\ completed' = TRUE
       \/ /\ ~AllDone
          /\ AnyFailed
          /\ monitorResult' = "failed"
          /\ completed' \in BOOLEAN
       \/ /\ ~AllDone
          /\ ctxCancelled
          /\ monitorResult' = "cancelled"
          /\ completed' \in BOOLEAN
    /\ monitorState' = "exited"
    /\ workers' = [i \in 1..Len(workers) |->
                      [workers[i] EXCEPT !.state =
                          IF @ = "Running" THEN "Cancelled" ELSE @]]
    /\ IF Persisting
       THEN /\ checkpoint' = Snapshot
            /\ io' = [io EXCEPT !.ckptWritten = TRUE]
       ELSE UNCHANGED <<checkpoint, io>>
    /\ UNCHANGED <<pc, config, respInput, execResult, monitorCreated,
                   totalSize, acceptRanges, instanceState, ranges,
                   monitorCancelFunc, ctxCancelled, paused, fired, calls,
                   chans>>
    /\ UNCHANGED <<drvVars, goVars>>

\* ------------------------------------------------------- status channel
\* GetDownloadStatusChan(): a channel and its emitter goroutine.
GetDownloadStatusChan(c) ==
    /\ monitorCreated
    /\ chans[c].state = "none"
    /\ chans' = [chans EXCEPT ![c] = [state |-> "open", pc |-> "check"]]
    /\ UNCHANGED <<pc, config, respInput, execResult, monitorCreated,
                   totalSize, acceptRanges, checkpoint, instanceState, ranges,
                   workers, monitorCancelFunc, ctxCancelled, monitorState,
                   monitorResult, completed, paused, fired, io, calls>>
    /\ UNCHANGED <<drvVars, goVars>>

\* An emitter that returns on completion without closing its channel.
EmitterSelectNoClose(c) ==
    /\ chans[c].pc = "check"
    /\ chans' = [chans EXCEPT ![c] =
                    IF completed
                    THEN [state |-> @.state, pc |-> "done"]
                    ELSE [state |-> @.state, pc |-> "send"]]
    /\ UNCHANGED <<pc, config, respInput, execResult, monitorCreated,
                   totalSize, acceptRanges, checkpoint, instanceState, ranges,
                   workers, monitorCancelFunc, ctxCancelled, monitorState,
                   monitorResult, completed, paused, fired, io, calls>>
    /\ UNCHANGED <<drvVars, goVars>>

\* The emitter's select: close and return on completion, else go on to send.
EmitterSelect(c) ==
    /\ chans[c].pc = "check"
    /\ chans' = [chans EXCEPT ![c] =
                    IF completed
                    THEN [state |-> "closed", pc |-> "done"]
                    ELSE [state |-> @.state, pc |-> "send"]]
    /\ UNCHANGED <<pc, config, respInput, execResult, monitorCreated,
                   totalSize, acceptRanges, checkpoint, instanceState, ranges,
                   workers, monitorCancelFunc, ctxCancelled, monitorState,
                   monitorResult, completed, paused, fired, io, calls>>
    /\ UNCHANGED <<drvVars, goVars>>

\* c <- der.monitor.status: the emitter offers a snapshot and blocks.
EmitterSend(c) ==
    /\ chans[c].pc = "send"
    /\ chans' = [chans EXCEPT ![c] =
                    IF @.state = "closed"
                    THEN [state |-> "closed", pc |-> "panic"]
                    ELSE [state |-> "offered", pc |-> "blocked"]]
    /\ UNCHANGED <<pc, config, respInput, execResult, monitorCreated,
                   totalSize, acceptRanges, checkpoint, instanceState, ranges,
                   workers, monitorCancelFunc, ctxCancelled, monitorState,
                   monitorResult, completed, paused, fired, io, calls>>
    /\ UNCHANGED <<drvVars, goVars>>

\* The consumer receives the offered snapshot; the emitter goes to sleep.
ConsumerReceive(c) ==
    /\ chans[c].state = "offered"
    /\ chans' = [chans EXCEPT ![c] = [state |-> "open", pc |-> "sleep"]]
    /\ UNCHANGED <<pc, config, respInput, execResult, monitorCreated,
                   totalSize, acceptRanges, checkpoint, instanceState, ranges,
                   workers, monitorCancelFunc, ctxCancelled, monitorState,
                   monitorResult, completed, paused, fired, io, calls>>
    /\ UNCHANGED <<drvVars, goVars>>

\* time.Sleep(1 * time.Second) is over.
EmitterWake(c) ==
    /\ chans[c].pc = "sleep"
    /\ chans' = [chans EXCEPT ![c].pc = "check"]
    /\ UNCHANGED <<pc, config, respInput, execResult, monitorCreated,
                   totalSize, acceptRanges, checkpoint, instanceState, ranges,
                   workers, monitorCancelFunc, ctxCancelled, monitorState,
                   monitorResult, completed, paused, fired, io, calls>>
    /\ UNCHANGED <<drvVars, goVars>>

\* ----------------------------------------------------- the whole program
Next ==
    \/ ExecLazyInit
    \/ ExecHeadTransportError
    \/ ExecHeadResponse
    \/ ExecLoadInstanceState
    \/ ExecChooseParallel
    \/ ExecCapCache
    \/ ExecBuildWorkers
    \/ ExecMakeContext
    \/ ExecFireOnExecute
    \/ MonitorStart
    \/ \E i \in 1..Len(workers) : WorkerFlush(i)
    \/ \E i \in 1..Len(workers) : WorkerFail(i)
    \/ MonitorTick
    \/ MonitorExit
    \/ ExecRemoveInstanceState
    \/ ExecFireOnFinish
    \/ ExecReturn
    \/ Pause
    \/ Resume
    \/ Cancel
    \/ \E c \in 1..MaxChans : GetDownloadStatusChan(c)
    \/ \E c \in 1..MaxChans : EmitterSelect(c)
    \/ \E c \in 1..MaxChans : EmitterSend(c)
    \/ \E c \in 1..MaxChans : ConsumerReceive(c)
    \/ \E c \in 1..MaxChans : EmitterWake(c)

Spec == Init /\ [][Next]_vars

\* The scheduler runs every goroutine that can take a step: the one in
\* Execute, the monitor, the emitters, and a consumer that keeps receiving.
Fairness ==
    /\ \A c \in 1..MaxChans :
          /\ WF_vars(EmitterSelect(c))
          /\ WF_vars(EmitterSend(c))
          /\ WF_vars(ConsumerReceive(c))
          /\ WF_vars(EmitterWake(c))

FairSpec == StatusInit /\ [][Next]_vars /\ Fairness

\* ------------------------------------------------- claims on the plan
\* Execute has built the workers of a fresh plan on a range-capable source.
FreshPlanBuilt ==
    /\ pc = "ctx"
    /\ acceptRanges = "bytes"
    /\ ~isRange

RECURSIVE SumRangeLen(_, _)
SumRangeLen(ws, n) ==
    IF n = 0 THEN 0 ELSE RangeLen(ws[n].wrange) + SumRangeLen(ws, n - 1)

\* The ranges of ws, in order, are non-empty, start at 0, end at total-1 and
\* each starts right after the previous one ends.
TilesObject(ws, total) ==
    /\ Len(ws) >= 1
    /\ ws[1].wrange.Begin = 0
    /\ ws[Len(ws)].wrange.End = total - 1
    /\ \A i \in 1..Len(ws) :
          /\ 0 <= ws[i].wrange.Begin
          /\ ws[i].wrange.Begin <= ws[i].wrange.End
          /\ ws[i].wrange.End <= total - 1
    /\ \A i \in 1..Len(ws), j \in 1..Len(ws) :
          i < j => ws[i].wrange.End < ws[j].wrange.Begin
    /\ \A i \in 1..(Len(ws) - 1) :
          ws[i + 1].wrange.Begin = ws[i].wrange.End + 1

\* C1: the worker ranges of every fresh plan on a range-capable source lie
\* within [0, total-1], are pairwise disjoint and cover [0, total-1] exactly,
\* so their lengths add up to total.
C1_RangePartition ==
    FreshPlanBuilt =>
        /\ TilesObject(workers, totalSize)
        /\ SumRangeLen(workers, Len(workers)) = totalSize

\* A fresh plan of at least three ranges whose total is no multiple of the
\* parallelism.
C1_Witness ==
    /\ FreshPlanBuilt
    /\ Len(workers) >= 3
    /\ totalSize % Len(workers) # 0

\* C6: whenever a fresh plan on a range-capable source uses more than one
\* worker, every planned range holds at least MinParallelSize bytes.
C6_EveryBlockAtLeastMinParallelSize ==
    (FreshPlanBuilt /\ config.parallel > 1) =>
        \A i \in 1..Len(workers) :
            RangeLen(workers[i].wrange) >= MinParallelSize

\* C7: in every run that builds workers for a source of known length, the
\* cache size handed to the workers is at most the length of the smallest
\* planned range and at most config.CacheSize.
C7_CacheWithinSmallestRange ==
    (pc = "ctx" /\ totalSize >= 1) =>
        \A i \in 1..Len(workers) :
            /\ workers[i].cacheSize <= config.CacheSize
            /\ \A j \in 1..Len(workers) :
                  workers[i].cacheSize <= RangeLen(workers[j].wrange)

\* -------------------------------------------------- claims on the run
\* Execute has returned from a run whose monitor stopped on a worker failure.
ReturnedAfterFailure ==
    pc = "returned" /\ monitorResult = "failed"

\* Execute has returned from a run whose monitor was cancelled while running.
ReturnedAfterCancel ==
    pc = "returned" /\ monitorResult = "cancelled"

\* C2: when a worker failed during the run, Execute returns a non-nil error.
C2_FailurePropagates ==
    ReturnedAfterFailure => execResult # "nil"

\* C3: when Cancel() stopped the running monitor, Execute returns a non-nil
\* (Cancelled) error.
C3_CancelReturnsCancelled ==
    ReturnedAfterCancel => execResult # "nil"

\* C4: the checkpoint is removed only after a run that completed with every
\* range done; after a cancelled or failed run of a checkpointed download the
\* checkpoint file still exists when Execute returns.
C4_CheckpointKeptUnlessSuccess ==
    /\ io.ckptRemoved => monitorResult = "completed"
    /\ (pc = "returned" /\ monitorResult \in {"failed", "cancelled"} /\ Persisting)
          => checkpoint.present

\* The HEAD probe failed in transport or answered with a 4xx or 5xx status.
HeadFailed ==
    /\ pc \notin {"new", "head"}
    /\ \/ respInput.err
       \/ (respInput.StatusCode >= 400 /\ respInput.StatusCode <= 599)

\* C5: when the HEAD probe fails in transport or answers 4xx/5xx, Execute
\* returns a non-nil error at once: the checkpoint is neither loaded nor
\* written, no worker is built, the monitor is not started, on_execute and
\* on_finish are not fired and the sink is not written.
C5_HeadFailureReturnsAtOnce ==
    HeadFailed =>
        /\ pc = "returned"
        /\ execResult \notin {"none", "nil"}
        /\ instanceState = "nil"
        /\ ~io.ckptRead /\ ~io.ckptWritten /\ ~io.ckptRemoved
        /\ workers = <<>>
        /\ monitorState = "idle"
        /\ fired.onExecute = 0 /\ fired.onFinish = 0
        /\ ~io.sinkWritten

\* The HEAD probe failed and the client has used the control surface since.
C5_Witness ==
    /\ HeadFailed
    /\ respInput.StatusCode = 503
    /\ execResult = "RemoteError"
    /\ checkpoint.present
    /\ calls > 0

\* C8: in an Execute that reaches the run step, on_execute is triggered
\* exactly once and before the monitor starts, on_finish exactly once and
\* only after the monitor has exited, however the run ended.
C8_EventOrder ==
    /\ fired.onExecute <= 1
    /\ fired.onFinish <= 1
    /\ monitorState # "idle" => fired.onExecute = 1
    /\ fired.onFinish = 1 => (monitorState = "exited" /\ fired.onExecute = 1)
    /\ (pc = "returned" /\ monitorState = "exited") =>
          (fired.onExecute = 1 /\ fired.onFinish = 1)

\* Execute returned after a run that did not complete, both events fired.
C8_Witness ==
    /\ pc = "returned"
    /\ monitorResult \in {"failed", "cancelled"}
    /\ fired.onExecute = 1
    /\ fired.onFinish = 1

\* C9: before Execute has started the monitor, Pause, Resume and Cancel fire
\* no callback and change no monitor state.
C9_ControlNoOpBeforeMonitorStarts ==
    monitorState = "idle" =>
        /\ fired.onPause = 0 /\ fired.onResume = 0 /\ fired.onCancel = 0
        /\ ~paused
        /\ ~ctxCancelled

\* No snapshot is sent on a closed channel: the emitter of a closed channel
\* has returned.
ClosedChannelsAreQuiet ==
    \A c \in 1..MaxChans :
        /\ chans[c].state = "closed" => chans[c].pc = "done"
        /\ chans[c].pc # "panic"

\* C10: with a consumer that keeps receiving, every status channel is closed
\* eventually once the monitor has signalled completion, and nothing is sent
\* on a channel after it is closed.
C10_StatusChannelCloses ==
    /\ \A c \in 1..MaxChans :
          (completed /\ chans[c].state # "none") ~> (chans[c].state = "closed")
    /\ []ClosedChannelsAreQuiet
    /\ [][\A c \in 1..MaxChans :
             chans[c].state = "closed" => chans'[c].state = "closed"]_vars

\* A status channel of a download that completed has been closed.
C10_Witness ==
    \E c \in 1..MaxChans :
        /\ chans[c].state = "closed"
        /\ completed
        /\ monitorResult = "completed"
        /\ io.sinkWritten

\* ------------------------------------------- further claims on the plan
\* Execute has chosen the parallelism (and possibly built the workers).
ParallelChosen == pc \in {"cap", "build", "ctx"}

\* C13: the parallelism is 1 when Content-Length <= 0, the number of
\* persisted ranges when a checkpoint with at least one range was loaded on a
\* range-capable source, and min(MaxParallel, total / MinParallelSize + 1)
\* otherwise; exactly that many workers are appended to the monitor.
C13_ParallelismChosen ==
    /\ ParallelChosen =>
          config.parallel =
             IF respInput.ContentLength <= 0 THEN 1
             ELSE IF Len(ranges) >= 1 THEN Len(ranges)
             ELSE IF config.MaxParallel <= (totalSize \div MinParallelSize) + 1
                  THEN config.MaxParallel
                  ELSE (totalSize \div MinParallelSize) + 1
    /\ pc = "ctx" => Len(workers) = config.parallel
    /\ (pc = "ctx" /\ totalSize = 100 /\ Len(ranges) = 0) =>
          (Len(workers) = 1 /\ workers[1].wrange.Begin = 0
                            /\ workers[1].wrange.End = 99)

\* A fresh plan clamped below MaxParallel, with more than one worker.
C13_Witness ==
    /\ pc = "ctx"
    /\ Len(ranges) = 0
    /\ Len(workers) = 2
    /\ config.MaxParallel > 2

\* C14: for every run with total T and chosen parallelism N, fresh or
\* resumed, the effective cache size is min(config.CacheSize, T / N).
C14_CacheClamp ==
    pc \in {"build", "ctx"} =>
        LET tn == totalSize \div config.parallel
        IN  /\ config.cacheSize =
                  (IF config.CacheSize <= tn THEN config.CacheSize ELSE tn)
            /\ \A i \in 1..Len(workers) :
                  workers[i].cacheSize = config.cacheSize

\* A resumed run whose cache size was lowered to T / N.
C14_Witness ==
    /\ pc = "ctx"
    /\ Len(ranges) = 3
    /\ config.cacheSize < config.CacheSize
    /\ config.cacheSize = totalSize \div 3

\* C15: resuming from a checkpoint that holds k >= 1 usable ranges on a
\* range-capable source builds exactly k workers, worker i holding persisted
\* range i unchanged, whatever MaxParallel and MinParallelSize are.
C15_ResumeKeepsRanges ==
    (pc = "ctx" /\ acceptRanges = "bytes" /\ Consistent(checkpoint, totalSize)) =>
        /\ Len(workers) = Len(checkpoint.ranges)
        /\ \A i \in 1..Len(checkpoint.ranges) :
              workers[i].wrange = checkpoint.ranges[i]

\* A resumed plan of three ranges where the clamp would have given another
\* number of workers.
C15_Witness ==
    /\ pc = "ctx"
    /\ Consistent(checkpoint, totalSize)
    /\ Len(workers) = 3
    /\ config.MaxParallel = 1
    /\ workers[1].wrange.Downloaded = 1

\* C20: in every run that builds workers with config.CacheSize >= 1, the
\* cache size passed to each worker is at least 1, also when the HEAD probe
\* reports Content-Length <= 0.
C20_CacheSizePositive ==
    (pc = "ctx" /\ config.CacheSize >= 1) =>
        \A i \in 1..Len(workers) : workers[i].cacheSize >= 1

\* ------------------------------------------ further claims on the run
\* C19: whenever Cancel() has fired on_cancel, the monitor context of the run
\* is cancelled: the monitor never runs with an uncancelled context after
\* on_cancel was fired.
C19_OnCancelMeansCancelled ==
    (fired.onCancel > 0 /\ monitorState = "running") => ctxCancelled

\* ---------------------------------------------------------------------
\* RunDownload: the task queue, retries and the skip of existing files
\* ---------------------------------------------------------------------

\* MaxRetry of every dtask RunDownload creates.
MaxRetry == 3

\* The remote tree.  A path is a tuple; <<1>> is a directory holding the
\* files <<1, k>> and the directory <<1, 0>>, which holds one file; <<2>>
\* is a file.
RequestedPaths == << <<1>>, <<2>> >>

IsDir(path) == path \in {<<1>>, <<1, 0>>}

\* FilesDirectoriesList(path), in listing order.
Children(path) ==
    IF path = <<1>>
    THEN [k \in 1..MaxDirFiles |-> <<1, k>>] \o << <<1, 0>> >>
    ELSE IF path = <<1, 0>> THEN << <<1, 0, 1>> >>
    ELSE <<>>

FilePaths == {<<2>>, <<1, 0, 1>>} \cup {<<1, k>> : k \in 1..MaxDirFiles}

\* What the local disk holds for one remote file: the destination
\* savePath and the checkpoint savePath + DownloadSuffix.
FileStates == [dest : BOOLEAN, ckpt : BOOLEAN]

\* An error is the sequence of the phrases of its message.
FileExistsPhrase == "file already exists"

DownloadFileManifest == "download file error"

Contains(err, phrase) == \E i \in 1..Len(err) : err[i] = phrase

NilError == <<>>

\* The ways one DownloadFile call can end: "ok" the download function ran
\* and Execute returned nil; "exists" and "early" DownloadFile failed
\* before it called the download function; "late" the download function
\* opened the destination and then failed.
DownloadOutcomes == {"ok", "exists", "early", "late"}

OutcomeError(outcome) ==
    CASE outcome = "ok" -> NilError
      [] outcome = "exists" -> <<"remote", FileExistsPhrase>>
      [] outcome = "early" -> <<"network", "timeout">>
      [] outcome = "late" -> <<"head", "status 500">>

\* The local files after one DownloadFile call.
FileAfter(f, outcome, test) ==
    IF test \/ outcome \in {"exists", "early"} THEN f
    ELSE IF outcome = "late" THEN [f EXCEPT !.dest = TRUE]
    ELSE [dest |-> TRUE, ckpt |-> FALSE]

fileExistIgnoresCheckpoint(f) == f.dest

fileExist(f) == f.dest /\ ~f.ckpt

NoRetryNever(errManifest, err) == FALSE

\* The cases handleTaskErr does not retry.
NoRetry(errManifest, err) ==
    errManifest = DownloadFileManifest /\ Contains(err, FileExistsPhrase)

MayRetryInclusive(task) == task.retry <= task.MaxRetry

MayRetry(task) == task.retry < task.MaxRetry

PushFront(list, id) == <<id>> \o list

PushBack(list, id) == Append(list, id)

\* handleTaskErr(task, errManifest, err): the task's retry counter after
\* the call and whether the task was pushed back.
handleTaskErr(task, errManifest, err) ==
    IF err = NilError \/ NoRetry(errManifest, err) \/ ~MayRetry(task)
    THEN [retry |-> task.retry, requeued |-> FALSE]
    ELSE [retry |-> task.retry + 1, requeued |-> TRUE]

NewTask(path, known) ==
    [path |-> path, retry |-> 0, MaxRetry |-> MaxRetry, downloadInfo |-> known]

NoStep ==
    [kind |-> "none", id |-> 0, err |-> NilError, retryBefore |-> 0,
     before |-> [dest |-> FALSE, ckpt |-> FALSE], requeued |-> FALSE]

\* RunDownload up to its main loop: one task per requested path.
DriverInit ==
    /\ NewDownloader(HeadResponse(200, 100), RunConfig.MaxParallel,
                     RunConfig.CacheSize, FALSE, NoCheckpoint)
    /\ drvPc = "loop"
    /\ isTest \in BOOLEAN
    /\ tasks = [k \in 1..Len(RequestedPaths) |->
                  NewTask(RequestedPaths[k], FALSE)]
    /\ dlist = [k \in 1..Len(RequestedPaths) |-> k]
    /\ \E f \in FileStates : fs = [path \in FilePaths |-> f]
    /\ hist = [attempts |-> [k \in 1..Len(RequestedPaths) |-> 0],
               pushed |-> [k \in 1..Len(RequestedPaths) |-> k],
               taken |-> 0, last |-> NoStep]
    /\ printer = "none"
    /\ notifier = "none"

\* The task the next iteration loads: dlist.Front().
Front == Head(dlist)

\* dlist.Remove(e).
Removed == Tail(dlist)

\* The history after an iteration that took the front task.
Took(kind, err, requeued, pushedIds, newTasks) ==
    [attempts |->
        [k \in 1..(Len(tasks) + newTasks) |->
            IF k > Len(tasks) THEN 0
            ELSE IF k = Front /\ kind \in {"ok", "fail"}
                 THEN hist.attempts[k] + 1 ELSE hist.attempts[k]],
     pushed |-> hist.pushed \o pushedIds,
     taken |-> hist.taken + 1,
     last |-> [kind |-> kind, id |-> Front, err |-> err,
               retryBefore |-> tasks[Front].retry,
               before |-> IF IsDir(tasks[Front].path)
                          THEN NoStep.before ELSE fs[tasks[Front].path],
               requeued |-> requeued]]

\* The queue is empty: the loop breaks.
DrvFinish ==
    /\ drvPc = "loop"
    /\ dlist = <<>>
    /\ drvPc' = "done"
    /\ UNCHANGED <<isTest, dlist, tasks, fs, hist>>
    /\ UNCHANGED <<derVars, goVars>>

\* FilesDirectoriesMeta fails: the task is dropped.
DrvMetaError ==
    /\ drvPc = "loop"
    /\ dlist # <<>>
    /\ ~tasks[Front].downloadInfo
    /\ dlist' = Removed
    /\ hist' = Took("metaError", <<"meta">>, FALSE, <<>>, 0)
    /\ UNCHANGED <<drvPc, isTest, tasks, fs>>
    /\ UNCHANGED <<derVars, goVars>>

\* A directory whose listing fails: the task is dropped.
DrvListError ==
    /\ drvPc = "loop"
    /\ dlist # <<>>
    /\ IsDir(tasks[Front].path)
    /\ dlist' = Removed
    /\ tasks' = [tasks EXCEPT ![Front].downloadInfo = TRUE]
    /\ hist' = Took("listError", <<"list">>, FALSE, <<>>, 0)
    /\ UNCHANGED <<drvPc, isTest, fs>>
    /\ UNCHANGED <<derVars, goVars>>

\* A directory: every child becomes a new task at the back of the queue.
DrvListDir ==
    /\ drvPc = "loop"
    /\ dlist # <<>>
    /\ IsDir(tasks[Front].path)
    /\ LET fileList == Children(tasks[Front].path)
           ids == [k \in 1..Len(fileList) |-> Len(tasks) + k]
       IN /\ tasks' = [tasks EXCEPT ![Front].downloadInfo = TRUE]
                        \o [k \in 1..Len(fileList) |-> NewTask(fileList[k], TRUE)]
          /\ dlist' = Removed \o ids
          /\ hist' = Took("list", NilError, FALSE, ids, Len(fileList))
    /\ UNCHANGED <<drvPc, isTest, fs>>
    /\ UNCHANGED <<derVars, goVars>>

\* A file that counts as already downloaded: skipped.
DrvSkipExisting ==
    /\ drvPc = "loop"
    /\ dlist # <<>>
    /\ ~IsDir(tasks[Front].path)
    /\ ~isTest /\ fileExist(fs[tasks[Front].path])
    /\ dlist' = Removed
    /\ tasks' = [tasks EXCEPT ![Front].downloadInfo = TRUE]
    /\ hist' = Took("skip", NilError, FALSE, <<>>, 0)
    /\ UNCHANGED <<drvPc, isTest, fs>>
    /\ UNCHANGED <<derVars, goVars>>

\* A file: one DownloadFile call, then handleTaskErr on its error.
DrvDownload ==
    /\ drvPc = "loop"
    /\ dlist # <<>>
    /\ ~IsDir(tasks[Front].path)
    /\ ~(~isTest /\ fileExist(fs[tasks[Front].path]))
    /\ \E outcome \in DownloadOutcomes :
         LET err == OutcomeError(outcome)
             path == tasks[Front].path
             h == handleTaskErr(tasks[Front], DownloadFileManifest, err)
         IN /\ fs' = [fs EXCEPT ![path] = FileAfter(fs[path], outcome, isTest)]
            /\ tasks' = [tasks EXCEPT ![Front].downloadInfo = TRUE,
                                      ![Front].retry = h.retry]
            /\ dlist' = IF h.requeued THEN PushBack(Removed, Front) ELSE Removed
            /\ hist' = Took(IF err = NilError THEN "ok" ELSE "fail", err,
                            h.requeued,
                            IF h.requeued THEN <<Front>> ELSE <<>>, 0)
    /\ UNCHANGED <<drvPc, isTest>>
    /\ UNCHANGED <<derVars, goVars>>

DriverNext ==
    \/ DrvFinish
    \/ DrvMetaError
    \/ DrvListError
    \/ DrvListDir
    \/ DrvSkipExisting
    \/ DrvDownload

DriverSpec == DriverInit /\ [][DriverNext]_vars

\* The calls RunDownload makes return, so its loop keeps running.
DriverFairSpec == DriverSpec /\ WF_vars(DriverNext)

\* ---------------------------------------------------------------------
\* Claims about RunDownload
\* ---------------------------------------------------------------------

TaskIds == 1..Len(tasks)

Queued(id) == \E i \in 1..Len(dlist) : dlist[i] = id

\* C11: a task's retry counter never exceeds MaxRetry (3); a task is pushed
\* back only after a failed DownloadFile call and only while its counter
\* was below MaxRetry; DownloadFile is called at most MaxRetry + 1 times
\* for one task.
C11_RetryBounded ==
    drvPc # "off" =>
        /\ \A id \in TaskIds :
             /\ tasks[id].retry <= MaxRetry
             /\ hist.attempts[id] <= MaxRetry + 1
             /\ tasks[id].retry <= hist.attempts[id]
        /\ hist.last.requeued =>
             /\ hist.last.kind = "fail"
             /\ hist.last.retryBefore < MaxRetry

C11_Witness ==
    /\ drvPc = "loop"
    /\ hist.last.kind = "fail"
    /\ ~hist.last.requeued
    /\ tasks[hist.last.id].retry = MaxRetry
    /\ hist.attempts[hist.last.id] = MaxRetry + 1

\* C12: a DownloadFile error whose message contains the file-already-exists
\* phrase is never retried: the task is not pushed back and its retry
\* counter stays; after any other DownloadFile error the task is pushed to
\* the back of the queue, with its counter raised by one, while the counter
\* was below MaxRetry.
C12_ExistsErrorNeverRetried ==
    (drvPc # "off" /\ hist.last.kind = "fail") =>
        LET id == hist.last.id IN
        IF Contains(hist.last.err, FileExistsPhrase)
        THEN /\ ~Queued(id)
             /\ tasks[id].retry = hist.last.retryBefore
        ELSE IF hist.last.retryBefore < MaxRetry
        THEN /\ dlist # <<>>
             /\ dlist[Len(dlist)] = id
             /\ tasks[id].retry = hist.last.retryBefore + 1
        ELSE /\ ~Queued(id)
             /\ tasks[id].retry = hist.last.retryBefore

C12_Witness ==
    /\ drvPc = "loop"
    /\ hist.last.kind = "fail"
    /\ Contains(hist.last.err, FileExistsPhrase)
    /\ hist.last.retryBefore \in 1..(MaxRetry - 1)
    /\ ~Queued(hist.last.id)
    /\ dlist # <<>>

\* C16: outside test mode a file task is skipped exactly when its
\* destination exists and its checkpoint file does not; a destination whose
\* checkpoint file exists is never skipped; in test mode nothing is
\* skipped.
C16_SkipExactlyFinishedFiles ==
    (drvPc # "off" /\ hist.last.kind \in {"skip", "ok", "fail"}) =>
        ((hist.last.kind = "skip")
            <=> (~isTest /\ hist.last.before.dest /\ ~hist.last.before.ckpt))

C16_Witness ==
    /\ hist.last.kind = "skip"
    /\ ~isTest
    /\ hist.last.before = [dest |-> TRUE, ckpt |-> FALSE]
    /\ hist.taken > 1

\* The tasks leave the queue in the order they entered it.
FifoOrder ==
    /\ dlist = SubSeq(hist.pushed, hist.taken + 1, Len(hist.pushed))
    /\ hist.taken >= 1 => hist.last.id = hist.pushed[hist.taken]

\* A task that failed and is retried went behind everything queued.
RequeuedLast ==
    hist.last.requeued => (dlist # <<>> /\ dlist[Len(dlist)] = hist.last.id)

\* C17: RunDownload terminates on a finite remote tree when every call it
\* makes returns, whatever fails; tasks leave the queue in FIFO order from
\* the front, and a failed task is attempted again only after every task
\* that was queued when it failed.
C17_DriverTerminatesFifo ==
    /\ [](drvPc # "off" => (FifoOrder /\ RequeuedLast))
    /\ <>(drvPc = "done")

C17_Witness ==
    /\ drvPc = "done"
    /\ hist.taken > Len(tasks) + MaxRetry
    /\ \E id \in TaskIds : hist.attempts[id] = MaxRetry + 1
    /\ \E id \in TaskIds : hist.attempts[id] = 1

\* ---------------------------------------------------------------------
\* getDownloadFunc: the goroutines around one Execute
\* ---------------------------------------------------------------------

\* The status channel the on_execute callback asks for.
ds == 1

\* The on_execute callback starts: it calls GetDownloadStatusChan and
\* enters its select loop.
OnExecuteStart ==
    /\ fired.onExecute >= 1
    /\ printer = "none"
    /\ chans[ds].state = "none"
    /\ printer' = "select"
    /\ chans' = [chans EXCEPT ![ds] = [state |-> "open", pc |-> "check"]]
    /\ UNCHANGED <<pc, config, respInput, execResult, monitorCreated,
                   totalSize, acceptRanges, checkpoint, instanceState, ranges,
                   workers, monitorCancelFunc, ctxCancelled, monitorState,
                   monitorResult, completed, paused, fired, io, calls>>
    /\ UNCHANGED <<drvVars, notifier>>

\* case v, ok := <-ds with ok true: a status is printed, the loop goes on.
PrinterReceiveStatus ==
    /\ printer = "select"
    /\ chans[ds].state = "offered"
    /\ chans' = [chans EXCEPT ![ds] = [state |-> "open", pc |-> "sleep"]]
    /\ UNCHANGED <<pc, config, respInput, execResult, monitorCreated,
                   totalSize, acceptRanges, checkpoint, instanceState, ranges,
                   workers, monitorCancelFunc, ctxCancelled, monitorState,
                   monitorResult, completed, paused, fired, io, calls>>
    /\ UNCHANGED <<drvVars, goVars>>

\* case v, ok := <-ds with ok false: the channel is closed, return.
PrinterSeesClosed ==
    /\ printer = "select"
    /\ chans[ds].state = "closed"
    /\ printer' = "returned"
    /\ UNCHANGED <<derVars, drvVars, notifier>>

\* case <-exitDownloadFunc: the notifier's send is taken, both return.
PrinterExit ==
    /\ printer = "select"
    /\ notifier = "blocked"
    /\ printer' = "returned"
    /\ notifier' = "done"
    /\ UNCHANGED <<derVars, drvVars>>

\* The on_finish callback starts and blocks in exitDownloadFunc <- struct{}{}.
OnFinishStart ==
    /\ fired.onFinish >= 1
    /\ notifier = "none"
    /\ notifier' = "blocked"
    /\ UNCHANGED <<derVars, drvVars, printer>>

ExecStep ==
    \/ ExecLazyInit
    \/ ExecHeadTransportError
    \/ ExecHeadResponse
    \/ ExecLoadInstanceState
    \/ ExecChooseParallel
    \/ ExecCapCache
    \/ ExecBuildWorkers
    \/ ExecMakeContext
    \/ ExecFireOnExecute
    \/ ExecRemoveInstanceState
    \/ ExecFireOnFinish
    \/ ExecReturn

MonitorStep ==
    \/ MonitorStart
    \/ \E i \in 1..Len(workers) : WorkerFlush(i)
    \/ \E i \in 1..Len(workers) : WorkerFail(i)
    \/ MonitorTick
    \/ MonitorExit

PrinterStep ==
    \/ OnExecuteStart
    \/ PrinterReceiveStatus
    \/ PrinterSeesClosed
    \/ PrinterExit

\* One download function call: Execute, the monitor, the status emitter
\* and the two callbacks; nothing calls Pause, Resume or Cancel.
GoNext ==
    \/ ExecStep
    \/ MonitorStep
    \/ EmitterSelect(ds)
    \/ EmitterSend(ds)
    \/ EmitterWake(ds)
    \/ PrinterStep
    \/ OnFinishStart

\* The scheduler runs every goroutine that can take a step.
GoFairness ==
    /\ WF_vars(ExecStep)
    /\ WF_vars(MonitorStep)
    /\ WF_vars(EmitterSelect(ds))
    /\ WF_vars(EmitterSend(ds))
    /\ WF_vars(EmitterWake(ds))
    /\ WF_vars(PrinterStep)
    /\ WF_vars(OnFinishStart)

GoSpec == StatusInit /\ [][GoNext]_vars /\ GoFairness

\* C18: once Execute has triggered on_finish, the status emitter, the
\* on_execute printing loop and the on_finish notifier all terminate
\* eventually; none stays blocked forever on a channel.
C18_GoroutinesTerminate ==
    (fired.onFinish >= 1)
        ~> (printer = "returned" /\ notifier = "done" /\ chans[ds].pc = "done")

====
